---- MODULE Spec2Model ----
(***************************************************************************)
(* Dyna-style planning agent (code/agent.py, class DynaAgent) on the grid  *)
(* world of code/environment.py (class Environment).                       *)
(*                                                                         *)
(* Conventions.                                                            *)
(*  - Python arrays indexed from 0 are functions on 0..n-1.  The history   *)
(*    is a sequence of rows <<s, a, r, s1>>: row k of the numpy array is   *)
(*    history[k+1], column c of a row is component c+1.                    *)
(*  - numpy float64 values (alpha, gamma, epsilon, Q, np.sqrt) are fixed   *)
(*    point numbers: the integer v stands for v / Unit, products and square*)
(*    roots are rounded down to a multiple of 1 / Unit.                    *)
(*  - simulate and _plan are executed statement by statement; pc is the    *)
(*    statement about to be executed.                                      *)
(***************************************************************************)
EXTENDS Integers, Sequences, FiniteSets, TLC

VARIABLES
    \* Environment.__init__ (attributes injected by **p, then the model)
    num_x_states, num_y_states, num_actions, blocked_states,
    start_state, goal_state, reward_at_goal, num_states, T, R,
    \* the frame of _generate_env_model: the loop indices s and a
    gen_s, gen_a,
    \* the class of the agent, then DynaAgent.__init__
    agent_class, alpha, gamma, epsilon,
    \* the agent's mutable tables and its current state
    Q, experience_buffer, action_count, history, s,
    \* the frame of simulate: arguments, loop index, locals
    pc, num_trials, reset_agent, num_planning_updates, t, a, s1, r,
    \* the frame of _plan: argument, loop index, where it returns to
    plan_n, plan_i, plan_ret,
    \* real steps and planning iterations requested so far, and whether the
    \* tables held anything but their initial contents when last re-created
    steps, plans, was_dirty

envVars   == <<num_x_states, num_y_states, num_actions, blocked_states,
               start_state, goal_state, reward_at_goal, num_states, T, R,
               gen_s, gen_a>>
agentVars == <<agent_class, alpha, gamma, epsilon>>
tableVars == <<Q, experience_buffer, action_count, history, s>>
simVars   == <<num_trials, reset_agent, num_planning_updates, t, a, s1, r>>
planVars  == <<plan_n, plan_i, plan_ret>>
budget    == <<steps, plans>>
vars      == <<envVars, agentVars, tableVars, simVars, planVars, pc, budget,
               was_dirty>>

----------------------------------------------------------------------------
(* Bounds of the model. *)

\* real steps one agent is asked for, over all its calls of simulate
MaxSteps == 3
\* planning iterations one agent is asked for, over all its calls
MaxPlans == 2
\* rows and columns of the grids whose model is built pair by pair
MaxSide == 2

(* Values standing for Python's unbound local / missing attribute, for an  *)
(* exception raised while indexing, and for the float64 resolution.        *)
Unbound == -1
IndexError == -2
Unit == 4

\* num_planning_updates is None or an integer: <<>> or <<n>>
None == <<>>
Some(n) == <<n>>

----------------------------------------------------------------------------
(* Fixed point arithmetic standing for float64. *)

FMul(x, y) == (x * y) \div Unit

\* the largest k with k * k <= n
ISqrt(n) == CHOOSE k \in 0..n : k * k <= n /\ n < (k + 1) * (k + 1)

\* np.sqrt(c) as a fixed point number, of a counter c that is an integer
\* (DynaAgent, dtype=int) or itself a fixed point number (MyDynaAgent,
\* dtype=float)
np_sqrt(c) ==
    IF agent_class = "MyDynaAgent" THEN ISqrt(c * Unit)
    ELSE ISqrt(c * Unit * Unit)

SetMax(S) == CHOOSE m \in S : \A x \in S : x <= m

----------------------------------------------------------------------------
(* environment.py *)

\* s // num_x_states, s % num_x_states
_convert_state_to_coords(st) == <<st \div num_x_states, st % num_x_states>>

\* np.arange(ny * nx).reshape(ny, nx)[i][j]: a negative index counts from
\* the end, an index outside [-n, n) raises IndexError
_convert_coords_to_state(i, j) ==
    IF i < -num_y_states \/ i >= num_y_states
       \/ j < -num_x_states \/ j >= num_x_states
    THEN IndexError
    ELSE ((i + num_y_states) % num_y_states) * num_x_states
         + ((j + num_x_states) % num_x_states)

\* a move that is not stopped by a blocked state
_get_new_state_through_blocks(st, b) ==
    LET i == _convert_state_to_coords(st)[1]
        j == _convert_state_to_coords(st)[2]
        bumpI == IF i = 0 THEN b = 0
                 ELSE IF i = num_y_states - 1 THEN b = 1 ELSE FALSE
        bumpJ == IF j = 0 THEN b = 2
                 ELSE IF j = num_x_states - 1 THEN b = 3 ELSE FALSE
        ni == IF b = 0 THEN i - 1 ELSE IF b = 1 THEN i + 1 ELSE i
        nj == IF b = 0 \/ b = 1 THEN j ELSE IF b = 2 THEN j - 1 ELSE j + 1
        n1 == _convert_coords_to_state(ni, nj)
    IN  IF bumpI \/ bumpJ THEN <<st, 0>>
        ELSE IF n1 = IndexError THEN <<IndexError, 0>>
        ELSE IF n1 = goal_state THEN <<n1, reward_at_goal>>
        ELSE <<n1, 0>>

\* <<next state, reward>> of action b in state st; the next state is
\* IndexError when _convert_coords_to_state raises
_get_new_state(st, b) ==
    LET i == _convert_state_to_coords(st)[1]
        j == _convert_state_to_coords(st)[2]
        bumpI == IF i = 0 THEN b = 0
                 ELSE IF i = num_y_states - 1 THEN b = 1 ELSE FALSE
        bumpJ == IF j = 0 THEN b = 2
                 ELSE IF j = num_x_states - 1 THEN b = 3 ELSE FALSE
        ni == IF b = 0 THEN i - 1 ELSE IF b = 1 THEN i + 1 ELSE i
        nj == IF b = 0 \/ b = 1 THEN j ELSE IF b = 2 THEN j - 1 ELSE j + 1
        n1 == _convert_coords_to_state(ni, nj)
    IN  IF bumpI \/ bumpJ THEN <<st, 0>>
        ELSE IF n1 = IndexError THEN <<IndexError, 0>>
        ELSE IF n1 \in blocked_states THEN <<st, 0>>
        ELSE IF n1 = goal_state THEN <<n1, reward_at_goal>>
        ELSE <<n1, 0>>

States  == 0..(num_states - 1)
Actions == 0..(num_actions - 1)

RECURSIVE RowSum(_, _)
RowSum(row, n) == IF n = 0 THEN 0 ELSE row[n - 1] + RowSum(row, n - 1)

\* T[s, a, :] /= np.sum(T[s, a, :]) unless the row is all zero
Normalise(row) ==
    IF \A x \in DOMAIN row : row[x] = 0 THEN row
    ELSE [x \in DOMAIN row |->
             (row[x] * Unit) \div RowSum(row, Cardinality(DOMAIN row))]

\* _generate_env_model: the transition model T and the reward model R
GenT ==
    [st \in States |-> [b \in Actions |->
        Normalise([x \in States |->
                      IF x = _get_new_state(st, b)[1] THEN 1 ELSE 0])]]

\* the reward paid for leaving the goal instead of for reaching it
GenR_on_departure ==
    [st \in States |-> [b \in Actions |->
        IF st = goal_state THEN reward_at_goal ELSE 0]]

\* R[s, a] = r for the r returned by _get_new_state(s, a)
GenR == [st \in States |-> [b \in Actions |-> _get_new_state(st, b)[2]]]

\* _generate_env_model raises no exception
EnvBuilt ==
    \A st \in States : \A b \in Actions :
        _get_new_state(st, b)[1] # IndexError

\* the keyword arguments of init_env: a 2 x 2 grid with the actions up and
\* down, the goal below the start, rewarded or punished
RewardedGrid ==
    [nx |-> 2, ny |-> 2, na |-> 2, blocked |-> {}, start |-> 0, goal |-> 2,
     rew |-> 2]

PunishedGrid ==
    [nx |-> 2, ny |-> 2, na |-> 2, blocked |-> {}, start |-> 0, goal |-> 2,
     rew |-> -1]

\* a 2 x 2 grid with the four actions up, down, left and right, the cell
\* right of the start blocked, the goal in the opposite corner
BlockedGrid ==
    [nx |-> 2, ny |-> 2, na |-> 4, blocked |-> {1}, start |-> 0, goal |-> 3,
     rew |-> 2]

\* a single column of three cells with the actions up and down, the start
\* on top and the goal at the bottom
ColumnGrid ==
    [nx |-> 1, ny |-> 3, na |-> 2, blocked |-> {}, start |-> 0, goal |-> 2,
     rew |-> 2]

----------------------------------------------------------------------------
(* agent.py, class DynaAgent: the tables *)

\* the arguments <<alpha, gamma, epsilon>> of DynaAgent(...)
Greedy    == <<Unit \div 2, Unit \div 2, 0>>
Exploring == <<Unit \div 2, Unit \div 2, Unit>>
Frozen    == <<0, Unit \div 2, 0>>

\* the agents explored: <<init_env arguments, DynaAgent arguments>>
Setups ==
    { <<RewardedGrid, Greedy>>, <<RewardedGrid, Exploring>>,
      <<RewardedGrid, Frozen>>, <<PunishedGrid, Greedy>>,
      <<PunishedGrid, Frozen>>, <<BlockedGrid, Greedy>> }

\* np.zeros((num_states, num_actions))
_init_q_values == [x \in States |-> [b \in Actions |-> 0]]

\* row s * num_actions + a is [s, a, 0, s]
_init_experience_buffer ==
    [i \in 0..(num_states * num_actions - 1) |->
        LET p == CHOOSE p \in States \X Actions : p[1] * num_actions + p[2] = i
        IN  <<p[1], p[2], 0, p[1]>>]

\* np.empty((0, 4), dtype=int)
_init_history == <<>>

\* np.zeros((num_states, num_actions), dtype=int)
_init_action_count == [x \in States |-> [b \in Actions |-> 0]]

\* the row index computed with state and action exchanged
_update_experience_buffer_swapped(st, b, rw, nxt) ==
    [experience_buffer EXCEPT ![b * num_actions + st] = <<st, b, rw, nxt>>]

\* experience_buffer[s * num_actions + a] = [s, a, r, s1]
_update_experience_buffer(st, b, rw, nxt) ==
    [experience_buffer EXCEPT ![st * num_actions + b] = <<st, b, rw, nxt>>]

\* Q[s1, :].max()
MaxQ(st) == SetMax({Q[st][b] : b \in Actions})

B2I(flag) == IF flag THEN 1 ELSE 0

\* the learning rate applied to the bootstrap term only, the reward added whole
_update_qvals_unscaled_reward(st, b, rw, nxt, bonus) ==
    [Q EXCEPT ![st][b] =
        Q[st][b] + rw * Unit
                 + FMul(alpha, FMul(gamma, MaxQ(nxt)) - Q[st][b])]

\* Q[s,a] += alpha * (r + epsilon * bonus * sqrt(action_count[s,a])
\*                      + gamma * Q[s1,:].max() - Q[s,a])
_update_qvals(st, b, rw, nxt, bonus) ==
    [Q EXCEPT ![st][b] =
        Q[st][b] + FMul(alpha, rw * Unit
                               + FMul(epsilon, B2I(bonus) * np_sqrt(action_count[st][b]))
                               + FMul(gamma, MaxQ(nxt))
                               - Q[st][b])]

\* only the counters of the state just left are incremented
_update_action_count_own_state(st, b) ==
    LET incremented == [action_count EXCEPT
                           ![st] = [c \in Actions |-> action_count[st][c] + 1]]
    IN  [incremented EXCEPT ![st][b] = 0]

\* the reset applied before the increment
_update_action_count_reset_first(st, b) ==
    LET zeroed == [action_count EXCEPT ![st][b] = 0]
    IN  [x \in States |-> [c \in Actions |-> zeroed[x][c] + 1]]

\* action_count += 1; action_count[s, a] = 0
_update_action_count(st, b) ==
    LET incremented == [x \in States |-> [c \in Actions |-> action_count[x][c] + 1]]
    IN  [incremented EXCEPT ![st][b] = 0]

\* the increment is the distance walked along rows and columns
MyDynaAgent_update_action_count_manhattan(st, b) ==
    LET coords == [x \in States |-> _convert_state_to_coords(x)]
        Abs(n) == IF n < 0 THEN -n ELSE n
        distance == [x \in States |->
                        (Abs(coords[x][1] - coords[st][1])
                         + Abs(coords[x][2] - coords[st][2])) * Unit]
        added == [x \in States |->
                     [c \in Actions |-> action_count[x][c] + distance[x]]]
    IN  [added EXCEPT ![st][b] = 0]

\* MyDynaAgent._update_action_count: np.sqrt((coords[0] - coords[0][s]) ** 2
\* + (coords[1] - coords[1][s]) ** 2) of every state, added to each of the
\* state's counters; then action_count[s, a] = 0
MyDynaAgent_update_action_count(st, b) ==
    LET coords == [x \in States |-> _convert_state_to_coords(x)]
        distance == [x \in States |->
                        ISqrt(((coords[x][1] - coords[st][1]) ^ 2
                               + (coords[x][2] - coords[st][2]) ^ 2)
                              * Unit * Unit)]
        added == [x \in States |->
                     [c \in Actions |-> action_count[x][c] + distance[x]]]
    IN  [added EXCEPT ![st][b] = 0]

\* np.vstack((history, [s, a, r, s1]))
_update_history(st, b, rw, nxt) == Append(history, <<st, b, rw, nxt>>)

\* Q_exp = Q[s, :] + epsilon * np.sqrt(action_count[s, :])
Q_exp(st) == [b \in Actions |-> Q[st][b] + FMul(epsilon, np_sqrt(action_count[st][b]))]

\* np.argmax(Q_exp): the first maximizer only
_policy_first_index(st) ==
    LET best == {b \in Actions :
                    Q_exp(st)[b] = SetMax({Q_exp(st)[c] : c \in Actions})}
    IN  {CHOOSE b \in best : \A c \in best : b <= c}

\* the actions np.random.choice(np.flatnonzero(Q_exp == Q_exp.max())) may return
_policy(st) ==
    {b \in Actions : Q_exp(st)[b] = SetMax({Q_exp(st)[c] : c \in Actions})}

RECURSIVE cumsum(_, _)
cumsum(col, n) ==
    IF n = 0 THEN <<>>
    ELSE LET prev == cumsum(col, n - 1)
         IN  Append(prev, (IF n = 1 THEN 0 ELSE prev[n - 1]) + col[n])

\* the rewards themselves, not accumulated
get_performace_no_sum == [k \in 1..Len(history) |-> history[k][3]]

\* np.cumsum(history[:, 2])
get_performace ==
    cumsum([k \in 1..Len(history) |-> history[k][3]], Len(history))

\* the tables exist: simulate(reset_agent=True) has run at least once
Created == s # Unbound

----------------------------------------------------------------------------
(* The agent after DynaAgent(alpha, gamma, epsilon) and init_env(config):   *)
(* the environment model is built, the tables do not exist yet.             *)

\* cls(alpha, gamma, epsilon) followed by init_env(...) for one of setups
Constructed(setups, cls) ==
    /\ \E setup \in setups :
        /\ num_x_states = setup[1].nx
        /\ num_y_states = setup[1].ny
        /\ num_actions = setup[1].na
        /\ blocked_states = setup[1].blocked
        /\ start_state = setup[1].start
        /\ goal_state = setup[1].goal
        /\ reward_at_goal = setup[1].rew
        /\ alpha = setup[2][1]
        /\ gamma = setup[2][2]
        /\ epsilon = setup[2][3]
    /\ num_states = num_x_states * num_y_states
    /\ EnvBuilt
    /\ T = GenT
    /\ R = GenR
    /\ gen_s = Unbound
    /\ gen_a = Unbound
    /\ agent_class = cls
    /\ Q = <<>>
    /\ experience_buffer = <<>>
    /\ action_count = <<>>
    /\ history = <<>>
    /\ s = Unbound
    /\ pc = "idle"
    /\ num_trials = 0
    /\ reset_agent = FALSE
    /\ num_planning_updates = None
    /\ t = 0
    /\ a = Unbound
    /\ s1 = Unbound
    /\ r = 0
    /\ plan_n = 0
    /\ plan_i = 0
    /\ plan_ret = "idle"
    /\ steps = 0
    /\ plans = 0
    /\ was_dirty = FALSE

Init == Constructed(Setups, "DynaAgent")

PlanningArgs == {None} \cup {Some(n) : n \in 0..MaxPlans}

\* the planning iterations of simulate(n, _, npu)
Requested(n, npu) == IF npu = None THEN 0 ELSE n * npu[1]

\* the tables hold something else than what the _init_ methods put there
Dirty ==
    /\ Created
    /\ \/ Q # _init_q_values
       \/ experience_buffer # _init_experience_buffer
       \/ action_count # _init_action_count
       \/ history # _init_history
       \/ s # start_state

----------------------------------------------------------------------------
(* simulate(num_trials, reset_agent, num_planning_updates), agent.py 177-220 *)

\* the call; without the tables a run of at least one trial raises
\* AttributeError at self.s unless reset_agent is true
SimulateCall(n, reset, npu) ==
    /\ pc = "idle"
    /\ steps + n <= MaxSteps
    /\ plans + Requested(n, npu) <= MaxPlans
    /\ reset \/ Created \/ n = 0
    /\ steps' = steps + n
    /\ plans' = plans + Requested(n, npu)
    /\ num_trials' = n
    /\ reset_agent' = reset
    /\ num_planning_updates' = npu
    /\ t' = 0
    /\ pc' = "reset"
    /\ UNCHANGED <<envVars, agentVars, tableVars, planVars, a, s1, r, was_dirty>>

\* a continued run put back on start_state
ResetAgentRestarting ==
    /\ pc = "reset"
    /\ IF reset_agent
       THEN /\ Q' = _init_q_values
            /\ experience_buffer' = _init_experience_buffer
            /\ action_count' = _init_action_count
            /\ history' = _init_history
            /\ s' = start_state
            /\ was_dirty' = Dirty
       ELSE /\ s' = IF Created THEN start_state ELSE s
            /\ UNCHANGED <<Q, experience_buffer, action_count, history,
                           was_dirty>>
    /\ pc' = "loop"
    /\ UNCHANGED <<envVars, agentVars, simVars, planVars, budget>>

\* a reset that forgets the visitation counters
ResetAgentKeepingCounts ==
    /\ pc = "reset"
    /\ IF reset_agent
       THEN /\ Q' = _init_q_values
            /\ experience_buffer' = _init_experience_buffer
            /\ action_count' = IF Created THEN action_count
                                ELSE _init_action_count
            /\ history' = _init_history
            /\ s' = start_state
            /\ was_dirty' = Dirty
       ELSE UNCHANGED <<tableVars, was_dirty>>
    /\ pc' = "loop"
    /\ UNCHANGED <<envVars, agentVars, simVars, planVars, budget>>

\* lines 187-193
ResetAgent ==
    /\ pc = "reset"
    /\ IF reset_agent
       THEN /\ Q' = _init_q_values
            /\ experience_buffer' = _init_experience_buffer
            /\ action_count' = _init_action_count
            /\ history' = _init_history
            /\ s' = start_state
            /\ was_dirty' = Dirty
       ELSE UNCHANGED <<tableVars, was_dirty>>
    /\ pc' = "loop"
    /\ UNCHANGED <<envVars, agentVars, simVars, planVars, budget>>

\* a run that ends at the first visit of the goal
LoopNextUntilGoal ==
    /\ pc = "loop"
    /\ t < num_trials
    /\ IF history # <<>> /\ history[Len(history)][4] = goal_state
       THEN pc' = "idle"
       ELSE pc' = "policy"
    /\ was_dirty' = FALSE
    /\ UNCHANGED <<envVars, agentVars, tableVars, simVars, planVars, budget>>

\* line 195: the next trial, or the end of the run
LoopNext ==
    /\ pc = "loop"
    /\ t < num_trials
    /\ pc' = "policy"
    /\ was_dirty' = FALSE
    /\ UNCHANGED <<envVars, agentVars, tableVars, simVars, planVars, budget>>

SimulateReturn ==
    /\ pc = "loop"
    /\ t >= num_trials
    /\ pc' = "idle"
    /\ num_trials' = 0
    /\ reset_agent' = FALSE
    /\ num_planning_updates' = None
    /\ t' = 0
    /\ was_dirty' = FALSE
    /\ UNCHANGED <<envVars, agentVars, tableVars, planVars, a, s1, r, budget>>

\* line 198: a = self._policy(self.s)
ChooseAction ==
    /\ pc = "policy"
    /\ a' \in _policy(s)
    /\ pc' = "sample"
    /\ UNCHANGED <<envVars, agentVars, tableVars, planVars, budget, was_dirty,
                   num_trials, reset_agent, num_planning_updates, t, s1, r>>

\* line 200: s1 = np.random.choice(np.arange(num_states), p=T[s, a, :])
SampleNextState ==
    /\ pc = "sample"
    /\ RowSum(T[s][a], num_states) = Unit
    /\ s1' \in {x \in States : T[s][a][x] > 0}
    /\ pc' = "reward"
    /\ UNCHANGED <<envVars, agentVars, tableVars, planVars, budget, was_dirty,
                   num_trials, reset_agent, num_planning_updates, t, a, r>>

\* line 202: r = self.R[self.s, a]
ReadReward ==
    /\ pc = "reward"
    /\ r' = R[s][a]
    /\ pc' = "learn"
    /\ UNCHANGED <<envVars, agentVars, tableVars, planVars, budget, was_dirty,
                   num_trials, reset_agent, num_planning_updates, t, a, s1>>

\* the real update made with the exploration bonus
LearnWithBonus ==
    /\ pc = "learn"
    /\ Q' = _update_qvals(s, a, r, s1, TRUE)
    /\ pc' = "record"
    /\ UNCHANGED <<envVars, agentVars, simVars, planVars, budget, was_dirty,
                   experience_buffer, action_count, history, s>>

\* line 204: self._update_qvals(self.s, a, r, s1, bonus=False)
Learn ==
    /\ pc = "learn"
    /\ Q' = _update_qvals(s, a, r, s1, FALSE)
    /\ pc' = "record"
    /\ UNCHANGED <<envVars, agentVars, simVars, planVars, budget, was_dirty,
                   experience_buffer, action_count, history, s>>

\* the model record followed at once by the history append
RecordSkippingTouch ==
    /\ pc = "record"
    /\ experience_buffer' = _update_experience_buffer(s, a, r, s1)
    /\ pc' = "append"
    /\ UNCHANGED <<envVars, agentVars, simVars, planVars, budget, was_dirty,
                   Q, action_count, history, s>>

\* line 206: self._update_experience_buffer(self.s, a, r, s1)
Record ==
    /\ pc = "record"
    /\ experience_buffer' = _update_experience_buffer(s, a, r, s1)
    /\ pc' = "touch"
    /\ UNCHANGED <<envVars, agentVars, simVars, planVars, budget, was_dirty,
                   Q, action_count, history, s>>

\* line 208: self._update_action_count(self.s, a)
Touch ==
    /\ pc = "touch"
    /\ action_count' = IF agent_class = "MyDynaAgent"
                       THEN MyDynaAgent_update_action_count(s, a)
                       ELSE _update_action_count(s, a)
    /\ pc' = "append"
    /\ UNCHANGED <<envVars, agentVars, simVars, planVars, budget, was_dirty,
                   Q, experience_buffer, history, s>>

\* line 210: self._update_history(self.s, a, r, s1)
AppendHistory ==
    /\ pc = "append"
    /\ history' = _update_history(s, a, r, s1)
    /\ pc' = "plancheck"
    /\ UNCHANGED <<envVars, agentVars, simVars, planVars, budget, was_dirty,
                   Q, experience_buffer, action_count, s>>

\* lines 212-213: if num_planning_updates is not None: self._plan(...)
PlanCheck ==
    /\ pc = "plancheck"
    /\ IF num_planning_updates # None
       THEN /\ plan_n' = num_planning_updates[1]
            /\ plan_i' = 0
            /\ plan_ret' = "advance"
            /\ pc' = "plan"
       ELSE /\ pc' = "advance"
            /\ UNCHANGED planVars
    /\ UNCHANGED <<envVars, agentVars, tableVars, simVars, budget, was_dirty>>

\* Advance without the return to the start state after the goal
AdvanceNoGoalReset ==
    /\ pc = "advance"
    /\ s' = s1
    /\ t' = t + 1
    /\ a' = Unbound
    /\ s1' = Unbound
    /\ r' = 0
    /\ plan_i' = 0
    /\ plan_n' = 0
    /\ pc' = "loop"
    /\ UNCHANGED <<envVars, agentVars, budget, was_dirty, plan_ret,
                   Q, experience_buffer, action_count, history,
                   num_trials, reset_agent, num_planning_updates>>

\* lines 215-218, and the end of the loop body
Advance ==
    /\ pc = "advance"
    /\ s' = IF s1 = goal_state THEN start_state ELSE s1
    /\ t' = t + 1
    /\ a' = Unbound
    /\ s1' = Unbound
    /\ r' = 0
    /\ plan_i' = 0
    /\ plan_n' = 0
    /\ pc' = "loop"
    /\ UNCHANGED <<envVars, agentVars, budget, was_dirty, plan_ret,
                   Q, experience_buffer, action_count, history,
                   num_trials, reset_agent, num_planning_updates>>

----------------------------------------------------------------------------
(* _plan(num_planning_updates), agent.py 154-167 *)

\* a call of _plan from outside simulate
PlanCall(n) ==
    /\ pc = "idle"
    /\ plans + n <= MaxPlans
    /\ Created
    /\ plans' = plans + n
    /\ plan_n' = n
    /\ plan_i' = 0
    /\ plan_ret' = "idle"
    /\ pc' = "plan"
    /\ UNCHANGED <<envVars, agentVars, tableVars, simVars, steps, was_dirty>>

\* the transition replayed when randint draws row i: lines 164-165
Replay(i) ==
    LET e == experience_buffer[i]
    IN  _update_qvals(e[1], e[2], e[3], e[4], TRUE)

\* an iteration that replays only pairs some real step has taken
PlanIterationObserved ==
    /\ pc = "plan"
    /\ plan_i < plan_n
    /\ LET seen == {i \in DOMAIN experience_buffer :
                       \E k \in 1..Len(history) :
                           history[k][1] * num_actions + history[k][2] = i}
       IN  IF seen = {} THEN Q' = Q
           ELSE \E i \in seen : Q' = Replay(i)
    /\ plan_i' = plan_i + 1
    /\ UNCHANGED <<envVars, agentVars, simVars, budget, was_dirty, pc,
                   plan_n, plan_ret, experience_buffer, action_count,
                   history, s>>

\* an iteration that also touches the counter of the replayed pair
PlanIterationTouching ==
    /\ pc = "plan"
    /\ plan_i < plan_n
    /\ \E i \in 0..(Cardinality(DOMAIN experience_buffer) - 1) :
          /\ Q' = Replay(i)
          /\ action_count' = _update_action_count(experience_buffer[i][1],
                                                  experience_buffer[i][2])
    /\ plan_i' = plan_i + 1
    /\ UNCHANGED <<envVars, agentVars, simVars, budget, was_dirty, pc,
                   plan_n, plan_ret, experience_buffer, history, s>>

\* lines 162-165: one iteration
PlanIteration ==
    /\ pc = "plan"
    /\ plan_i < plan_n
    /\ \E i \in 0..(Cardinality(DOMAIN experience_buffer) - 1) : Q' = Replay(i)
    /\ plan_i' = plan_i + 1
    /\ UNCHANGED <<envVars, agentVars, simVars, budget, was_dirty, pc,
                   plan_n, plan_ret, experience_buffer, action_count,
                   history, s>>

\* a return one iteration early
PlanReturnEarly ==
    /\ pc = "plan"
    /\ plan_i + 1 >= plan_n
    /\ pc' = plan_ret
    /\ IF plan_ret = "idle"
       THEN plan_i' = 0 /\ plan_n' = 0
       ELSE UNCHANGED <<plan_i, plan_n>>
    /\ UNCHANGED <<envVars, agentVars, tableVars, simVars, budget, was_dirty,
                   plan_ret>>

\* line 167
PlanReturn ==
    /\ pc = "plan"
    /\ plan_i >= plan_n
    /\ pc' = plan_ret
    /\ IF plan_ret = "idle"
       THEN plan_i' = 0 /\ plan_n' = 0
       ELSE UNCHANGED <<plan_i, plan_n>>
    /\ UNCHANGED <<envVars, agentVars, tableVars, simVars, budget, was_dirty,
                   plan_ret>>

----------------------------------------------------------------------------

Next ==
    \/ \E n \in 0..MaxSteps, reset \in BOOLEAN, npu \in PlanningArgs :
           SimulateCall(n, reset, npu)
    \/ ResetAgent
    \/ LoopNext
    \/ SimulateReturn
    \/ ChooseAction
    \/ SampleNextState
    \/ ReadReward
    \/ Learn
    \/ Record
    \/ Touch
    \/ AppendHistory
    \/ PlanCheck
    \/ Advance
    \/ \E n \in 0..MaxPlans : PlanCall(n)
    \/ PlanIteration
    \/ PlanReturn

Spec == Init /\ [][Next]_vars

----------------------------------------------------------------------------
(* class MyDynaAgent(DynaAgent), agent.py 224-249: the same simulate and   *)
(* _plan with the overridden _init_action_count and _update_action_count.  *)

\* the agents explored: <<init_env arguments, MyDynaAgent arguments>>
MySetups == { <<BlockedGrid, Greedy>>, <<ColumnGrid, Exploring>> }

MyInit == Constructed(MySetups, "MyDynaAgent")

SpecMy == MyInit /\ [][Next]_vars

----------------------------------------------------------------------------
(* Environment.__init__ on its own: _generate_env_model run pair by pair,  *)
(* for every grid of up to MaxSide x MaxSide cells with the four actions.  *)

\* an agent object whose init_env has not returned yet
NoAgent ==
    /\ agent_class = "DynaAgent"
    /\ alpha = Greedy[1]
    /\ gamma = Greedy[2]
    /\ epsilon = Greedy[3]
    /\ Q = <<>>
    /\ experience_buffer = <<>>
    /\ action_count = <<>>
    /\ history = <<>>
    /\ s = Unbound
    /\ num_trials = 0
    /\ reset_agent = FALSE
    /\ num_planning_updates = None
    /\ t = 0
    /\ a = Unbound
    /\ s1 = Unbound
    /\ r = 0
    /\ plan_n = 0
    /\ plan_i = 0
    /\ plan_ret = "idle"
    /\ steps = 0
    /\ plans = 0
    /\ was_dirty = FALSE

\* lines 13-14 and 25-26: the attributes, num_states, T and R all zero
EnvInit ==
    /\ num_x_states \in 1..MaxSide
    /\ num_y_states \in 1..MaxSide
    /\ num_actions = 4
    /\ num_states = num_x_states * num_y_states
    /\ blocked_states \in SUBSET States
    /\ start_state = 0
    /\ goal_state \in States
    /\ reward_at_goal \in {-1, 2}
    /\ T = [st \in States |-> [b \in Actions |-> [x \in States |-> 0]]]
    /\ R = [st \in States |-> [b \in Actions |-> 0]]
    /\ gen_s = 0
    /\ gen_a = 0
    /\ pc = "generate"
    /\ NoAgent

\* <<s, a>> of the next iteration of "for s ...: for a ...:", <<Unbound,
\* Unbound>> after the last one
NextPair ==
    IF gen_a + 1 < num_actions THEN <<gen_s, gen_a + 1>>
    ELSE IF gen_s + 1 < num_states THEN <<gen_s + 1, 0>>
    ELSE <<Unbound, Unbound>>

\* lines 28-33: one iteration of the first loop; an IndexError of
\* _get_new_state leaves __init__ by exception
GenerateStep ==
    /\ pc = "generate"
    /\ LET res == _get_new_state(gen_s, gen_a)
       IN  IF res[1] = IndexError
           THEN /\ pc' = "IndexError"
                /\ UNCHANGED <<T, R, gen_s, gen_a>>
           ELSE /\ T' = [T EXCEPT ![gen_s][gen_a][res[1]] = @ + 1]
                /\ R' = [R EXCEPT ![gen_s][gen_a] = res[2]]
                /\ IF NextPair = <<Unbound, Unbound>>
                   THEN gen_s' = 0 /\ gen_a' = 0 /\ pc' = "normalise"
                   ELSE gen_s' = NextPair[1] /\ gen_a' = NextPair[2]
                        /\ pc' = pc
    /\ UNCHANGED <<num_x_states, num_y_states, num_actions, blocked_states,
                   start_state, goal_state, reward_at_goal, num_states,
                   agentVars, tableVars, simVars, planVars, budget, was_dirty>>

\* lines 36-39: one iteration of the second loop, then the return
NormaliseStep ==
    /\ pc = "normalise"
    /\ T' = [T EXCEPT ![gen_s][gen_a] = Normalise(@)]
    /\ gen_s' = NextPair[1]
    /\ gen_a' = NextPair[2]
    /\ pc' = IF NextPair = <<Unbound, Unbound>> THEN "built" ELSE pc
    /\ UNCHANGED <<num_x_states, num_y_states, num_actions, blocked_states,
                   start_state, goal_state, reward_at_goal, num_states, R,
                   agentVars, tableVars, simVars, planVars, budget, was_dirty>>

EnvNext ==
    \/ GenerateStep
    \/ NormaliseStep

SpecEnv == EnvInit /\ [][EnvNext]_vars

----------------------------------------------------------------------------
(* Properties *)

\* the step whose row was appended last has not yet advanced the state
InStepTail ==
    \/ pc \in {"plancheck", "advance"}
    \/ pc = "plan" /\ plan_ret = "advance"

\* where the step after row <<_, _, _, landed>> begins
NextStart(landed) == IF landed = goal_state THEN start_state ELSE landed

\* C1. Goal reset: once a step has advanced, the current state is
\* start_state if the step landed in goal_state and the landed state
\* otherwise (until then it is still the state the step began in); hence each
\* history row begins where the row before it says, also when the run is
\* continued by simulate(reset_agent=False).
C1_GoalReset ==
    /\ history # <<>> =>
          LET last == history[Len(history)]
          IN  IF InStepTail THEN s = last[1] ELSE s = NextStart(last[4])
    /\ \A k \in 1..(Len(history) - 1) :
          history[k + 1][1] = NextStart(history[k][4])

\* a run continued with reset_agent=False begins at start_state after the
\* last step of the previous run reached the goal
C1_Witness ==
    /\ pc = "plancheck"
    /\ ~reset_agent
    /\ t = 0
    /\ Len(history) = 2
    /\ history[1][4] = goal_state
    /\ history[2][1] = start_state
    /\ goal_state # start_state

\* the pairs taken by a real step since the tables were created
Taken == {<<history[k][1], history[k][2]>> : k \in 1..Len(history)}

\* C2. Planning purity: every step of a run of _plan (its call from simulate
\* or from outside, each iteration, its return) leaves the experience model,
\* the visitation counters, the history and the current state unchanged;
\* only Q may change.
C2_PlanningPurity ==
    [][(pc = "plan" \/ pc' = "plan") =>
          UNCHANGED <<experience_buffer, action_count, history, s>>]_vars

\* _plan(2) called from outside simulate has replayed twice and has changed
\* the Q entry of a pair that no real step ever took
C2_Witness ==
    /\ pc = "plan"
    /\ plan_ret = "idle"
    /\ plan_i = 2
    /\ \E x \in States : \E b \in Actions :
          <<x, b>> \notin Taken /\ Q[x][b] # 0

\* C3. Counter reset: _update_action_count(s, a) leaves action_count[s, a]
\* at 0 and every other pair's counter at its previous value plus 1.
C3_CounterReset ==
    [][pc = "touch" =>
          \A x \in States : \A b \in Actions :
              action_count'[x][b] =
                  IF x = s /\ b = a THEN 0 ELSE action_count[x][b] + 1]_vars

\* after the touch of a step: the pair just taken is at 0, the pair taken
\* one step before is at 1, a pair never taken is at 2
C3_Witness ==
    /\ pc = "append"
    /\ action_count[s][a] = 0
    /\ \E x \in States : \E b \in Actions : action_count[x][b] = 1
    /\ \E x \in States : \E b \in Actions : action_count[x][b] = 2

\* the real steps made so far, the one being recorded included
RealSteps ==
    IF pc \in {"touch", "append"} THEN Append(history, <<s, a, r, s1>>)
    ELSE history

\* C4. Experience overwrite: the entry of a pair taken at least once is the
\* row of the most recent real step that took it, the entry of a pair never
\* taken is the default <<s, a, 0, s>>.
C4_ExperienceModel ==
    Created =>
        \A x \in States : \A b \in Actions :
            LET rows == {k \in 1..Len(RealSteps) :
                            RealSteps[k][1] = x /\ RealSteps[k][2] = b}
            IN  experience_buffer[x * num_actions + b] =
                    IF rows = {} THEN <<x, b, 0, x>>
                    ELSE RealSteps[SetMax(rows)]

\* a pair has been taken twice, another pair has been taken once with an
\* outcome that is not the default, and a planning iteration has run
C4_Witness ==
    /\ pc = "advance"
    /\ plan_i >= 1
    /\ \E j, k \in 1..Len(history) :
          /\ j < k
          /\ history[j][1] = history[k][1]
          /\ history[j][2] = history[k][2]
    /\ \E k \in 1..Len(history) : history[k][4] # history[k][1]

\* C5. simulate(reset_agent=True) begins its first step with Q all zero,
\* every model entry the self-loop default, every counter 0, an empty
\* history and the current state start_state.
C5_ResetAgent ==
    (pc \in {"loop", "policy"} /\ t = 0 /\ reset_agent) =>
        /\ \A x \in States : \A b \in Actions :
              /\ Q[x][b] = 0
              /\ action_count[x][b] = 0
              /\ experience_buffer[x * num_actions + b] = <<x, b, 0, x>>
        /\ DOMAIN Q = States
        /\ DOMAIN action_count = States
        /\ DOMAIN experience_buffer = 0..(num_states * num_actions - 1)
        /\ history = <<>>
        /\ s = start_state

\* the tables re-created held the traces of an earlier run
C5_Witness ==
    /\ pc = "loop"
    /\ t = 0
    /\ reset_agent
    /\ was_dirty
    /\ num_trials > 0

\* score(a) = Q[s, a] + epsilon * sqrt(action_count[s, a])
Score(st, b) == Q[st][b] + FMul(epsilon, np_sqrt(action_count[st][b]))

Maximizers(st) ==
    {b \in Actions : \A c \in Actions : Score(st, c) <= Score(st, b)}

\* C6. _policy(s) returns an action of maximal score, every action of
\* maximal score is a possible result, a single maximizer is returned
\* deterministically, and no table is modified.
C6_Policy ==
    /\ [](pc = "policy" =>
            \A b \in Maximizers(s) : ENABLED (ChooseAction /\ a' = b))
    /\ [][pc = "policy" =>
            /\ a' \in Maximizers(s)
            /\ Cardinality(Maximizers(s)) = 1 => Maximizers(s) = {a'}
            /\ UNCHANGED tableVars]_vars

\* a tie between both actions was broken in favour of the second one, though
\* the tables are no longer all zero
C6_Witness ==
    /\ pc = "sample"
    /\ a = 1
    /\ Score(s, 0) = Score(s, 1)
    /\ Score(s, 0) # 0

\* a single action of maximal score, which is not the first one, was chosen
C6_WitnessUnique ==
    /\ pc = "sample"
    /\ a = 1
    /\ Score(s, 0) < Score(s, 1)

\* the Q entry written by a TD update of <<x, b>> with outcome <<rw, nxt>>
\* and additive bonus term bt
Target(x, b, rw, nxt, bt) ==
    Q[x][b] + FMul(alpha, rw * Unit + bt
                          + FMul(gamma, SetMax({Q[nxt][c] : c \in Actions}))
                          - Q[x][b])

OnlyEntry(x, b, val) ==
    \A y \in States : \A c \in Actions :
        Q'[y][c] = IF y = x /\ c = b THEN val ELSE Q[y][c]

\* C7. The real step of simulate sets Q[s, a] to the TD target without any
\* bonus term (no counter, no epsilon), a planning iteration sets the Q
\* entry of the replayed row to the TD target with the bonus term
\* epsilon * sqrt(action_count); no other Q entry changes.
C7_UpdateRule ==
    [][/\ pc = "learn" => OnlyEntry(s, a, Target(s, a, r, s1, 0))
       /\ (pc = "plan" /\ plan_i' = plan_i + 1) =>
             \E i \in DOMAIN experience_buffer :
                LET e == experience_buffer[i]
                IN  OnlyEntry(e[1], e[2],
                        Target(e[1], e[2], e[3], e[4],
                            FMul(epsilon, np_sqrt(action_count[e[1]][e[2]]))))
       /\ Q' # Q => \/ pc = "learn"
                     \/ (pc = "plan" /\ plan_i' = plan_i + 1)
                     \/ (pc = "reset" /\ reset_agent)]_vars

\* a real update of a rewarded step on a pair whose bonus would not be zero
C7_Witness ==
    /\ pc = "record"
    /\ epsilon > 0
    /\ action_count[s][a] > 0
    /\ r > 0
    /\ Q[s][a] > 0

\* C8. Each step of simulate makes exactly num_planning_updates planning
\* iterations; with num_planning_updates 0 or None the only Q entry a step
\* changes is that of the pair really taken.
C8_PlanningCount ==
    /\ [](pc = "advance" =>
            plan_i = IF num_planning_updates = None THEN 0
                     ELSE num_planning_updates[1])
    /\ [][(pc \notin {"idle", "reset"} /\ plan_ret' # "idle"
           /\ num_planning_updates \in {None, Some(0)}) =>
             \A x \in States : \A b \in Actions :
                 Q'[x][b] # Q[x][b] => (pc = "learn" /\ x = s /\ b = a)]_vars

\* a step has made the two planning iterations it was asked for
C8_Witness ==
    /\ pc = "advance"
    /\ num_planning_updates = Some(2)
    /\ plan_i = 2

\* the statements one call of _plan(n) executes: n iterations and a return
PlanCost(n) == (IF n > 0 THEN n ELSE 0) + 1

\* the statements one trial of the running simulate executes
TrialCost ==
    10 + IF num_planning_updates = None THEN 0
         ELSE PlanCost(num_planning_updates[1])

\* the statements left in the running trial, the one at pc included
TrialLeft ==
    CASE pc = "policy" -> TrialCost - 1
      [] pc = "sample" -> TrialCost - 2
      [] pc = "reward" -> TrialCost - 3
      [] pc = "learn" -> TrialCost - 4
      [] pc = "record" -> TrialCost - 5
      [] pc = "touch" -> TrialCost - 6
      [] pc = "append" -> TrialCost - 7
      [] pc = "plancheck" -> TrialCost - 8
      [] pc = "plan" -> PlanCost(plan_n - plan_i) + 1
      [] pc = "advance" -> 1

\* the statements left until the running call returns
StepsToReturn ==
    CASE pc = "idle" -> 0
      [] pc = "reset" -> 2 + num_trials * TrialCost
      [] pc = "loop" -> 1 + (num_trials - t) * TrialCost
      [] pc = "plan" /\ plan_ret = "idle" -> PlanCost(plan_n - plan_i)
      [] OTHER -> 1 + (num_trials - t - 1) * TrialCost + TrialLeft

\* C9. simulate(num_trials) always returns, after exactly num_trials real
\* steps whether or not the goal was reached: every statement of a running
\* call can be executed and brings the return one statement nearer.  The
\* history only ever changes by one row <<s, a, r, s1>> appended per step (or
\* by being emptied by a reset), so simulate(n, reset_agent=True) leaves
\* exactly n rows.
C9_RunLength ==
    /\ [][history' # history =>
            \/ (pc = "append" /\ history' = Append(history, <<s, a, r, s1>>))
            \/ (pc = "reset" /\ reset_agent /\ history' = <<>>)]_vars
    /\ []((pc \notin {"idle", "reset"} /\ reset_agent) =>
            /\ t <= num_trials
            /\ Len(history) = IF InStepTail THEN t + 1 ELSE t)
    /\ [][(pc = "loop" /\ pc' = "idle") => t = num_trials]_vars
    /\ [][pc # "idle" => StepsToReturn' = StepsToReturn - 1]_vars
    /\ [](pc # "idle" => ENABLED Next)

\* a run of three steps is about to return; it reached the goal at its
\* first step and went on
C9_Witness ==
    /\ pc = "loop"
    /\ reset_agent
    /\ num_trials = 3
    /\ t = 3
    /\ Len(history) = 3
    /\ history[1][4] = goal_state

\* C10. The cumulative rewards returned by get_performace() never decrease
\* from one move to the next when no reward of the history is negative.
C10_PerformanceMonotone ==
    (\A k \in 1..Len(history) : history[k][3] >= 0) =>
        /\ Len(get_performace) = Len(history)
        /\ \A k \in 1..(Len(history) - 1) :
              get_performace[k] <= get_performace[k + 1]

\* three moves, the second of them rewarded
C10_Witness ==
    /\ Len(history) = 3
    /\ history[1][3] = 0
    /\ history[2][3] > 0
    /\ history[3][3] = 0
    /\ get_performace[1] < get_performace[3]

\* the sum of the rewards of the moves that precede move k
RECURSIVE RewardBefore(_)
RewardBefore(k) ==
    IF k <= 1 THEN 0 ELSE history[k - 1][3] + RewardBefore(k - 1)

\* C11. get_performace() returns, for each move k recorded in the history,
\* the reward collected prior to that move: the sum of the rewards of the
\* moves that precede move k (its docstring: "Returns cumulative reward
\* collected prior to each move").  np.cumsum sums up to and including move
\* k, so the entry of a rewarded move already holds that move's reward.
C11_PriorRewards ==
    /\ Len(get_performace) = Len(history)
    /\ \A k \in 1..Len(history) : get_performace[k] = RewardBefore(k)

\* C12. With alpha = 0 and epsilon = 0 the Q-table never changes: after any
\* number of real steps and planning iterations following a reset every
\* Q[s, a] is still 0, and no statement of a step or of planning leaves Q
\* different from what it was before.
C12_FrozenQ ==
    /\ [](alpha = 0 /\ epsilon = 0 /\ Created =>
            \A x \in States : \A b \in Actions : Q[x][b] = 0)
    /\ [][alpha = 0 /\ epsilon = 0 /\ pc # "reset" => Q' = Q]_vars

\* a frozen agent has learned from a rewarded move and replayed the model
C12_Witness ==
    /\ alpha = 0
    /\ epsilon = 0
    /\ pc = "plan"
    /\ plan_i >= 1
    /\ \E k \in 1..Len(history) : history[k][3] # 0

\* the number of history rows there were when the running simulate call
\* entered its loop
RowsAtEntry == Len(history) - t - (IF InStepTail THEN 1 ELSE 0)

\* C13. simulate called with reset_agent=False re-initializes nothing: its
\* lines 187-193 leave the Q-table, the experience model, the visitation
\* counters, the history and the current state exactly as the previous call
\* left them, so its first step continues where a single longer run would
\* be; its rows are appended to the rows it found, so simulate(n, True)
\* followed by simulate(m, False) leaves n + m rows.
C13_Continuation ==
    /\ [][pc = "reset" /\ ~reset_agent => UNCHANGED tableVars]_vars
    /\ [][pc \notin {"idle", "reset"} /\ pc' # "idle" =>
             RowsAtEntry' = RowsAtEntry]_vars
    /\ [][pc = "loop" /\ pc' = "idle" =>
             Len(history) = RowsAtEntry + num_trials]_vars

\* simulate(1, True) then simulate(2, False), which began away from
\* start_state, is about to return with 1 + 2 rows
C13_Witness ==
    /\ pc = "loop"
    /\ ~reset_agent
    /\ num_trials = 2
    /\ t = 2
    /\ Len(history) = 3
    /\ history[2][1] # start_state

\* exactly one state has probability 1 in T[st, b, :], the others 0
OneHot(st, b) ==
    /\ RowSum(T[st][b], num_states) = Unit
    /\ Cardinality({x \in States : T[st][b][x] = Unit}) = 1
    /\ \A x \in States : T[st][b][x] \in {0, Unit}

\* C14. For every grid configuration (num_x_states >= 1, num_y_states >= 1,
\* four actions, any blocked_states), building the Environment succeeds and
\* every row T[s, a, :] puts probability 1 on exactly one state of
\* [0, num_states), so no row sums to zero.
C14_EnvModel ==
    /\ pc # "IndexError"
    /\ pc = "built" => \A st \in States : \A b \in Actions : OneHot(st, b)

\* what holds of C14: a grid with at least two rows and two columns is
\* built, its model is the one the agents above start from, and each row
\* is one-hot on the state _get_new_state returns
C14_BuiltRows ==
    /\ num_x_states >= 2 /\ num_y_states >= 2 => pc # "IndexError"
    /\ pc = "built" =>
          /\ EnvBuilt
          /\ T = GenT
          /\ R = GenR
          /\ \A st \in States : \A b \in Actions :
                /\ OneHot(st, b)
                /\ T[st][b][_get_new_state(st, b)[1]] = Unit

\* the statements of one step of simulate, in the order of lines 197-218
StepOrder ==
    { <<"loop", "policy">>, <<"policy", "sample">>, <<"sample", "reward">>,
      <<"reward", "learn">>, <<"learn", "record">>, <<"record", "touch">>,
      <<"touch", "append">>, <<"append", "plancheck">>,
      <<"plancheck", "plan">>, <<"plancheck", "advance">>,
      <<"plan", "advance">>, <<"advance", "loop">> }

\* inside the loop body of simulate, the planning it calls included
InStep ==
    \/ pc \in {"policy", "sample", "reward", "learn", "record", "touch",
               "append", "plancheck", "advance"}
    \/ pc = "plan" /\ plan_ret = "advance"

\* C15. Within every step of simulate the operations happen in the order
\* action selection, next-state sampling, reward read, real Q update, model
\* record, counter touch, history append, planning, state advance, and each
\* table is written by its own statement only.  Hence the action of a step
\* maximises the Q-table and counters as they were before any write of the
\* step, and every planning iteration of a step finds the model entry of
\* the pair just taken equal to the step's outcome and its counter 0, so
\* that its planning bonus is 0.
C15_StepOrder ==
    /\ [][InStep /\ pc' # pc => <<pc, pc'>> \in StepOrder]_vars
    /\ [][InStep /\ a' # a => pc \in {"policy", "advance"}]_vars
    /\ [][InStep /\ s1' # s1 => pc \in {"sample", "advance"}]_vars
    /\ [][InStep /\ r' # r => pc \in {"reward", "advance"}]_vars
    /\ [][InStep /\ Q' # Q => pc \in {"learn", "plan"}]_vars
    /\ [][InStep /\ experience_buffer' # experience_buffer =>
             pc = "record"]_vars
    /\ [][InStep /\ action_count' # action_count => pc = "touch"]_vars
    /\ [][InStep /\ history' # history => pc = "append"]_vars
    /\ [][InStep /\ s' # s => pc = "advance"]_vars
    /\ [][pc = "record" =>
             experience_buffer'[s * num_actions + a] = <<s, a, r, s1>>]_vars
    /\ [][pc = "touch" => action_count'[s][a] = 0]_vars
    /\ [][pc = "append" =>
             history'[Len(history')] = <<s, a, r, s1>>]_vars
    /\ [](pc = "sample" => a \in Maximizers(s))
    /\ [](pc = "plan" /\ plan_ret = "advance" =>
            /\ experience_buffer[s * num_actions + a] = <<s, a, r, s1>>
            /\ history[Len(history)] = <<s, a, r, s1>>
            /\ action_count[s][a] = 0
            /\ FMul(epsilon, np_sqrt(action_count[s][a])) = 0)

\* planning inside the second step of an exploring agent, after one
\* iteration, while other pairs have gone unvisited for a while
C15_Witness ==
    /\ pc = "plan"
    /\ plan_ret = "advance"
    /\ plan_i >= 1
    /\ epsilon > 0
    /\ Len(history) = 2
    /\ s1 # s
    /\ \E x \in States : \E b \in Actions : action_count[x][b] >= 2

\* the real steps whose counter touch has been made
TouchedSteps ==
    IF pc = "append" THEN Append(history, <<s, a, r, s1>>) ELSE history

\* C16. In the base DynaAgent, after any sequence of real steps following a
\* reset, action_count[s, a] is the number of real steps taken after the
\* most recent step that took (s, a), or the number of all real steps since
\* the reset if (s, a) was never taken; every counter is >= 0, and at most
\* one pair has counter 0 once a step has been taken.
C16_CounterAge ==
    Created /\ agent_class = "DynaAgent" =>
        /\ \A x \in States : \A b \in Actions :
              LET rows == {k \in 1..Len(TouchedSteps) :
                              TouchedSteps[k][1] = x /\ TouchedSteps[k][2] = b}
              IN  /\ action_count[x][b] =
                        IF rows = {} THEN Len(TouchedSteps)
                        ELSE Len(TouchedSteps) - SetMax(rows)
                  /\ action_count[x][b] >= 0
        /\ Len(TouchedSteps) >= 1 =>
              Cardinality({p \in States \X Actions :
                              action_count[p[1]][p[2]] = 0}) <= 1

\* three steps: the pair of the first step has not been taken again, the
\* pair of the last step is at 0, a pair never taken is at 3
C16_Witness ==
    /\ agent_class = "DynaAgent"
    /\ pc = "plancheck"
    /\ Len(history) = 3
    /\ action_count[history[1][1]][history[1][2]] = 2
    /\ action_count[history[3][1]][history[3][2]] = 0
    /\ \E x \in States : \E b \in Actions :
          <<x, b>> \notin Taken /\ action_count[x][b] = 3

\* the Euclidean distance between the cells of states x and y, in (row,
\* column) coordinates, as a fixed point number
Euclid(x, y) ==
    LET dRow == (x \div num_x_states) - (y \div num_x_states)
        dCol == (x % num_x_states) - (y % num_x_states)
    IN  ISqrt((dRow * dRow + dCol * dCol) * Unit * Unit)

DrawnReplay(x, b) ==
    LET e == experience_buffer[x * num_actions + b]
    IN  OnlyEntry(e[1], e[2],
            Target(e[1], e[2], e[3], e[4],
                   FMul(epsilon, np_sqrt(action_count[e[1]][e[2]]))))

\* C18. Every planning iteration replays the current model entry of one
\* pair (s, a) drawn from the full state x action space: the table has one
\* row per pair, every pair can be drawn, also a pair never taken (whose
\* entry is the default (s, a, 0, s)), what an iteration replays is always
\* a row of the table, and _plan on freshly initialized tables, before any
\* real step, goes on to its return replaying default entries only.
C18_PlanningDraw ==
    /\ [](Created =>
            /\ DOMAIN experience_buffer = 0..(num_states * num_actions - 1)
            /\ \A x \in States : \A b \in Actions :
                  /\ experience_buffer[x * num_actions + b][1] = x
                  /\ experience_buffer[x * num_actions + b][2] = b
                  /\ <<x, b>> \notin Taken /\ pc \notin {"touch", "append"} =>
                        experience_buffer[x * num_actions + b] = <<x, b, 0, x>>)
    /\ [](pc = "plan" /\ plan_i < plan_n =>
            \A x \in States : \A b \in Actions :
                ENABLED (PlanIteration /\ DrawnReplay(x, b)))
    /\ [][pc = "plan" /\ plan_i' = plan_i + 1 =>
            \E x \in States : \E b \in Actions : DrawnReplay(x, b)]_vars
    /\ [](pc = "plan" /\ history = <<>> =>
            /\ experience_buffer =
                  [i \in 0..(num_states * num_actions - 1) |->
                      <<i \div num_actions, i % num_actions, 0,
                        i \div num_actions>>]
            /\ \A x \in States : \A b \in Actions : Q[x][b] = 0
            /\ ENABLED Next)

\* simulate(0, reset_agent=True) then _plan(2): both iterations are done and
\* no real step has been made
C18_Witness ==
    /\ pc = "plan"
    /\ plan_ret = "idle"
    /\ plan_n = 2
    /\ plan_i = 2
    /\ history = <<>>
    /\ steps = 0

\* a statement of a real step, the planning the step calls excluded
InRealStep == InStep /\ pc # "plan"

\* start_state is in range, differs from goal_state and is not blocked
StartIsFree ==
    /\ start_state \in States
    /\ start_state # goal_state
    /\ start_state \notin blocked_states

\* the state actions are selected from is a state of the grid that is
\* neither goal_state nor blocked, and so is the first column of every row
NeverAtGoal ==
    StartIsFree =>
        /\ Created => s \in States \ ({goal_state} \cup blocked_states)
        /\ \A k \in 1..Len(history) :
              history[k][1] \in States \ ({goal_state} \cup blocked_states)

\* C19 as claimed. In a grid whose start_state is in range, differs from
\* goal_state and is not blocked, the state the agent selects an action from
\* is always a state that is neither goal_state nor blocked, no history row
\* has goal_state or a blocked state as its first column, and the Q entries,
\* model entries and counters of the goal state's pairs are never touched by
\* a real step.
C19_GoalUntouched ==
    /\ []NeverAtGoal
    /\ [][StartIsFree /\ InRealStep =>
            \A b \in Actions :
                /\ Q'[goal_state][b] = Q[goal_state][b]
                /\ experience_buffer'[goal_state * num_actions + b] =
                      experience_buffer[goal_state * num_actions + b]
                /\ action_count'[goal_state][b] =
                      action_count[goal_state][b]]_vars

\* C19. What holds instead for the goal state's pairs: a real step never
\* writes their Q entries (only planning does) nor their model entries
\* (they stay the default), and it never resets their counters; but the
\* counter touch of every real step increments them like those of every
\* pair not taken, and planning never writes a counter.
C19_NonGoalState ==
    /\ []NeverAtGoal
    /\ [](StartIsFree /\ Created =>
            \A b \in Actions :
                experience_buffer[goal_state * num_actions + b] =
                    <<goal_state, b, 0, goal_state>>)
    /\ [][StartIsFree /\ InRealStep =>
            \A b \in Actions :
                /\ Q'[goal_state][b] = Q[goal_state][b]
                /\ action_count'[goal_state][b] =
                      IF pc = "touch" THEN action_count[goal_state][b] + 1
                      ELSE action_count[goal_state][b]]_vars
    /\ [][StartIsFree /\ (pc = "plan" \/ pc' = "plan") =>
            action_count' = action_count]_vars

\* the goal was reached at the first of two steps; since the reset a goal
\* pair's counter has grown to 2 and planning has given it a Q value
C19_Witness ==
    /\ StartIsFree
    /\ Len(history) = 2
    /\ history[1][4] = goal_state
    /\ \E b \in Actions :
          /\ Q[goal_state][b] # 0
          /\ action_count[goal_state][b] = 2

\* the cell action b leads to from state st: <<row, column>>
TargetCell(st, b) ==
    LET i == st \div num_x_states
        j == st % num_x_states
    IN  IF b = 0 THEN <<i - 1, j>>
        ELSE IF b = 1 THEN <<i + 1, j>>
        ELSE IF b = 2 THEN <<i, j - 1>>
        ELSE <<i, j + 1>>

\* action b in state st runs into a wall of the grid or into a blocked state
Bump(st, b) ==
    LET c == TargetCell(st, b)
    IN  \/ c[1] < 0 \/ c[1] >= num_y_states
        \/ c[2] < 0 \/ c[2] >= num_x_states
        \/ c[1] * num_x_states + c[2] \in blocked_states

\* the reward of a row is reward_at_goal if it lands on the goal, else 0
GoalRewarded(row) ==
    row[3] = IF row[4] = goal_state THEN reward_at_goal ELSE 0

\* C20. In a grid with start_state # goal_state and reward_at_goal # 0,
\* every history row (s, a, r, s1) has r = reward_at_goal if s1 = goal_state
\* and r = 0 otherwise, and so has every model entry that is not a default;
\* a move that bumps into a wall or a blocked state is recorded with s1 = s
\* and r = 0, any other move with the cell it leads to.
C20_RewardRows ==
    (start_state # goal_state /\ reward_at_goal # 0) =>
        /\ \A k \in 1..Len(history) :
              LET row == history[k]
                  c == TargetCell(row[1], row[2])
              IN  /\ GoalRewarded(row)
                  /\ IF Bump(row[1], row[2])
                     THEN row[4] = row[1] /\ row[3] = 0
                     ELSE row[4] = c[1] * num_x_states + c[2]
        /\ Created =>
              \A x \in States : \A b \in Actions :
                  LET e == experience_buffer[x * num_actions + b]
                  IN  e # <<x, b, 0, x>> => GoalRewarded(e)

\* a bump into the blocked state, a move, and the move onto the goal
C20_Witness ==
    /\ blocked_states = {1}
    /\ Len(history) = 3
    /\ history[1] = <<0, 3, 0, 0>>
    /\ history[2] = <<0, 1, 0, 2>>
    /\ history[3] = <<2, 3, reward_at_goal, goal_state>>
    /\ experience_buffer[2 * num_actions + 3] =
          <<2, 3, reward_at_goal, goal_state>>

====
